---------------------------- MODULE Spec2Model ----------------------------
(***************************************************************************)
(* A model of ai_server/server.py: a FastAPI process with three request    *)
(* handlers (health, classify, fina_categorize) and two process-wide       *)
(* singletons (tokenizer, model) loaded at import time.                    *)
(*                                                                         *)
(* Conventions.                                                            *)
(*  - A Python str is a sequence of one-character strings; "" is << >>.    *)
(*  - Python None is the value None below, which is no sequence of         *)
(*    one-character strings and so differs from every str.                 *)
(*  - A JSON request body is a record; a key the caller omitted is absent  *)
(*    from its DOMAIN, a key sent as null carries None.                    *)
(*  - A returned dict is a record with the dict's keys.                    *)
(*  - Each request in flight occupies a slot p; pc[p] is the handler's     *)
(*    position, frame[p] its local variables.                              *)
(***************************************************************************)
EXTENDS Integers, Sequences, FiniteSets, TLC

VARIABLES model, tokenizer, pc, handler, req, frame, result, posts

vars == <<model, tokenizer, pc, handler, req, frame, result, posts>>

(***************************************************************************)
(* Bounds of the model.                                                    *)
(***************************************************************************)
NumReqs == 2      \* request slots served concurrently
MaxLen == 3       \* longest ClassifyRequest.text
NumLabels == 3    \* size of the classifier's output layer
MaxLogit == 1     \* logits range over 0..MaxLogit
MaxItems == 2     \* longest FinaRequest.items

(***************************************************************************)
(* Python values.                                                          *)
(***************************************************************************)
None == <<"None">>

\* bool(v) for v a str or None: None and "" are falsy.
Truthy(v) == v # None /\ v # << >>

\* Python's `a or b` on str-or-None operands.
PyOr(a, b) == IF Truthy(a) THEN a ELSE b

Digits == <<"0", "1", "2", "3", "4", "5", "6", "7", "8", "9">>

\* str(i) / f"{i}" for a natural number i.
RECURSIVE IntToStr(_)
IntToStr(i) ==
    IF i < 10 THEN <<Digits[i + 1]>>
    ELSE IntToStr(i \div 10) \o <<Digits[(i % 10) + 1]>>

\* The characters str.strip() removes (those that occur in the inputs).
Whitespace == {" ", "\t", "\n"}

RECURSIVE LStrip(_)
LStrip(s) ==
    IF s # << >> /\ Head(s) \in Whitespace THEN LStrip(Tail(s)) ELSE s

RECURSIVE RStrip(_)
RStrip(s) ==
    IF s # << >> /\ s[Len(s)] \in Whitespace
    THEN RStrip(SubSeq(s, 1, Len(s) - 1))
    ELSE s

\* str.strip()
Strip(s) == RStrip(LStrip(s))

(***************************************************************************)
(* classify: text preparation (server.py 38-40).                           *)
(***************************************************************************)
Income == <<"i", "n", "c", "o", "m", "e">>
Expense == <<"e", "x", "p", "e", "n", "s", "e">>
Expenses == <<"e", "x", "p", "e", "n", "s", "e", "s">>

RecognizedTypes == {Income, Expense, Expenses}

TransactionPrefix ==
    <<"T", "r", "a", "n", "s", "a", "c", "t", "i", "o", "n", ":", " ">>
TypeInfix == <<" ", "-", " ", "T", "y", "p", "e", ":", " ">>

\* f"Transaction: {text} - Type: {item.type}"
Template(text, type) == TransactionPrefix \o text \o TypeInfix \o type

\* Mutant: the template is applied to every request that carries a type.
PrepareTextAnyType(item) ==
    IF item.type # None
    THEN Template(Strip(item.text), item.type)
    ELSE Strip(item.text)

\* The value of the local `text` handed to the tokenizer at line 42.
PrepareText(item) ==
    IF item.type \in RecognizedTypes
    THEN Template(Strip(item.text), item.type)
    ELSE Strip(item.text)

(***************************************************************************)
(* classify: softmax, argmax, score (server.py 46-48).                     *)
(* Probabilities are fixed-point numbers in thousandths: 1000 is 1.0.      *)
(***************************************************************************)
Ids == 0 .. (NumLabels - 1)

RECURSIVE SumOver(_, _)
SumOver(f, S) ==
    IF S = {} THEN 0
    ELSE LET i == CHOOSE j \in S : TRUE IN f[i] + SumOver(f, S \ {i})

MaxOf(f) == CHOOSE v \in {f[i] : i \in DOMAIN f} : \A j \in DOMAIN f : f[j] <= v

\* exp(-d) in thousandths, rounded, for a natural number d.
ExpMilli(d) ==
    CASE d = 0 -> 1000
      [] d = 1 -> 368
      [] d = 2 -> 135
      [] d = 3 -> 50
      [] d = 4 -> 18
      [] d = 5 -> 7
      [] d = 6 -> 2
      [] d = 7 -> 1
      [] OTHER -> 0

\* torch.softmax(logits, dim=-1): exp(l - max) normalised by the sum.
Softmax(logits) ==
    LET m == MaxOf(logits)
        e == [i \in DOMAIN logits |-> ExpMilli(m - logits[i])]
        total == SumOver(e, DOMAIN e)
    IN [i \in DOMAIN logits |-> (e[i] * 1000) \div total]

\* Mutant: the index of the smallest probability.
Argmin(probs) ==
    CHOOSE i \in DOMAIN probs :
        /\ \A j \in DOMAIN probs : probs[j] >= probs[i]
        /\ \A j \in DOMAIN probs : j < i => probs[j] > probs[i]

\* torch.argmax(probs, dim=-1): the first index of the largest value.
Argmax(probs) ==
    CHOOSE i \in DOMAIN probs :
        /\ \A j \in DOMAIN probs : probs[j] <= probs[i]
        /\ \A j \in DOMAIN probs : j < i => probs[j] < probs[i]

(***************************************************************************)
(* classify: label-name resolution (server.py 50-54).                      *)
(***************************************************************************)
LabelPrefix == <<"L", "A", "B", "E", "L", "_">>

\* f"LABEL_{label_id}"
SyntheticLabel(label_id) == LabelPrefix \o IntToStr(label_id)

\* dict.get(key): the value, or None for a missing key.
DictGet(d, key) == IF key \in DOMAIN d THEN d[key] ELSE None

\* Mutant: the fallback is taken only when the lookup returned None.
ResolveLabelNoneOnly(config, label_id) ==
    LET looked == IF config.is_dict THEN DictGet(config.id2label, label_id)
                  ELSE None
    IN IF looked = None THEN SyntheticLabel(label_id) ELSE looked

\* Lines 50-54.
ResolveLabel(config, label_id) ==
    LET looked == IF config.is_dict THEN DictGet(config.id2label, label_id)
                  ELSE None
    IN IF ~Truthy(looked) THEN SyntheticLabel(label_id) ELSE looked

(***************************************************************************)
(* The singletons loaded at startup (server.py 12-14).                     *)
(***************************************************************************)
BertKind == "BertForSequenceClassification"

\* A configured label name for id i.
CategoryName(i) == <<"c", "a", "t">> \o IntToStr(i)

\* model.config of the pretrained artifact: id2label is either no dict, a
\* dict naming some of the ids, or a dict naming all ids but one, whose name
\* is the empty string.
ModelConfigs ==
    {[is_dict |-> FALSE, id2label |-> << >>]}
    \cup {[is_dict |-> TRUE, id2label |-> [i \in D |-> CategoryName(i)]] :
             D \in SUBSET Ids}
    \cup {[is_dict |-> TRUE,
           id2label |-> [i \in Ids |-> IF i = e THEN << >> ELSE CategoryName(i)]] :
             e \in Ids}

LoadedModels == {[kind |-> BertKind, config |-> c] : c \in ModelConfigs}

LoadedTokenizer == "BertTokenizer"

\* What the forward pass may return: one logit per label.
LogitVectors == [Ids -> 0 .. MaxLogit]

(***************************************************************************)
(* Request slots.                                                          *)
(***************************************************************************)
Procs == 1 .. NumReqs

NoValue == [none |-> TRUE]

Init ==
    /\ model \in LoadedModels
    /\ tokenizer = LoadedTokenizer
    /\ pc = [p \in Procs |-> "idle"]
    /\ handler = [p \in Procs |-> "none"]
    /\ req = [p \in Procs |-> NoValue]
    /\ frame = [p \in Procs |-> NoValue]
    /\ result = [p \in Procs |-> NoValue]
    /\ posts = [p \in Procs |-> 0]

\* health (server.py 31-33)
Health(p) ==
    /\ pc[p] = "idle"
    /\ pc' = [pc EXCEPT ![p] = "done"]
    /\ handler' = [handler EXCEPT ![p] = "health"]
    /\ result' = [result EXCEPT ![p] = [status |-> "ok"]]
    /\ UNCHANGED <<model, tokenizer, req, frame, posts>>

(***************************************************************************)
(* classify (server.py 35-60), in three steps: the text is prepared and    *)
(* tokenized; the global model is called; the label is resolved.           *)
(***************************************************************************)
ClassifyTexts == UNION {[1 .. n -> {" ", "a"}] : n \in 0 .. MaxLen}

ClassifyTypes ==
    {None, Income, Expense, Expenses, << >>,
     <<"I", "n", "c", "o", "m", "e">>}

\* ClassifyRequest bodies (server.py 27-29); type defaults to None.
ClassifyRequests == [text : ClassifyTexts, type : ClassifyTypes]

\* Lines 36-42, for a request body drawn from items.
ClassifyStart(p, items) ==
    /\ pc[p] = "idle"
    /\ \E item \in items :
          /\ req' = [req EXCEPT ![p] = item]
          /\ frame' = [frame EXCEPT ![p] = [text |-> PrepareText(item)]]
    /\ pc' = [pc EXCEPT ![p] = "classify_infer"]
    /\ handler' = [handler EXCEPT ![p] = "classify"]
    /\ UNCHANGED <<model, tokenizer, result, posts>>

\* Lines 43-48, the forward pass returning one of outputs; calling a global
\* that is no model raises.
ClassifyInfer(p, outputs) ==
    /\ pc[p] = "classify_infer"
    /\ IF model.kind = BertKind
       THEN \E logits \in outputs :
              LET probs == Softmax(logits)
                  label_id == Argmax(probs)
              IN /\ frame' = [frame EXCEPT ![p] =
                        [text |-> frame[p].text, logits |-> logits,
                         probs |-> probs, label_id |-> label_id,
                         score |-> probs[label_id]]]
                 /\ pc' = [pc EXCEPT ![p] = "classify_label"]
       ELSE /\ pc' = [pc EXCEPT ![p] = "raised"]
            /\ UNCHANGED frame
    /\ UNCHANGED <<model, tokenizer, handler, req, result, posts>>

\* The dict returned at lines 56-60.
ClassifyResponse(m, label_id, score) ==
    [label_id |-> label_id,
     label_name |-> ResolveLabel(m.config, label_id),
     score |-> score]

\* Lines 50-60.
ClassifyReturn(p) ==
    /\ pc[p] = "classify_label"
    /\ IF model.kind = BertKind
       THEN /\ result' = [result EXCEPT ![p] =
                   ClassifyResponse(model, frame[p].label_id, frame[p].score)]
            /\ pc' = [pc EXCEPT ![p] = "done"]
       ELSE /\ pc' = [pc EXCEPT ![p] = "raised"]
            /\ UNCHANGED result
    /\ UNCHANGED <<model, tokenizer, handler, req, frame, posts>>

\* The response has been sent (or the exception reported) and the handler's
\* frame is discarded; the slot is free for the next request.
Finish(p) ==
    /\ pc[p] \in {"done", "raised"}
    /\ pc' = [pc EXCEPT ![p] = "idle"]
    /\ handler' = [handler EXCEPT ![p] = "none"]
    /\ req' = [req EXCEPT ![p] = NoValue]
    /\ frame' = [frame EXCEPT ![p] = NoValue]
    /\ result' = [result EXCEPT ![p] = NoValue]
    /\ posts' = [posts EXCEPT ![p] = 0]
    /\ UNCHANGED <<model, tokenizer>>

(***************************************************************************)
(* fina_categorize: request parsing (server.py 66-76).                     *)
(***************************************************************************)
PyTrue == <<"True">>
PyFalse == <<"False">>

\* A str as an element of a JSON document (a payload entry, a parsed body).
PyStr(s) == [str |-> s]

V1 == <<"v", "1">>
V3 == <<"v", "3">>
FINA_API_KEY_DEFAULT ==
    <<"f", "i", "n", "a", "-", "a", "p", "i", "-", "t", "e", "s", "t">>
FINA_PARTNER_ID_DEFAULT ==
    <<"f", "-", "j", "1", "f", "v", "m", "j", "m", "j">>

\* A field of a parsed pydantic model: the value sent, else the default.
Field(body, key, default) == IF key \in DOMAIN body THEN body[key] ELSE default

\* FinaItem(**raw)
FinaItem(raw) ==
    [name |-> raw.name,
     merchant |-> Field(raw, "merchant", << >>),
     amount |-> Field(raw, "amount", 0)]

\* FinaRequest(**body)
FinaRequest(body) ==
    [items |-> [i \in 1 .. Len(body.items) |-> FinaItem(body.items[i])],
     model |-> Field(body, "model", V3),
     mapping |-> Field(body, "mapping", PyTrue),
     api_key |-> Field(body, "api_key", None),
     partner_id |-> Field(body, "partner_id", None)]

(***************************************************************************)
(* fina_categorize: headers and payload (server.py 80-94).                 *)
(***************************************************************************)
\* Line 80.
EffectiveModel(r) == PyOr(r.model, V3)

\* Mutant: a null mapping is read as false.
MappingHeaderTruthy(r) ==
    IF r.mapping = PyTrue THEN <<"t", "r", "u", "e">>
    ELSE <<"f", "a", "l", "s", "e">>

\* Line 81.
MappingHeader(r) ==
    IF r.mapping = None \/ r.mapping = PyTrue THEN <<"t", "r", "u", "e">>
    ELSE <<"f", "a", "l", "s", "e">>

\* Mutant: only None falls back to the default key.
ApiKeyHeaderNoneOnly(r) ==
    IF r.api_key # None THEN r.api_key ELSE FINA_API_KEY_DEFAULT

\* Line 82.
ApiKeyHeader(r) == PyOr(r.api_key, FINA_API_KEY_DEFAULT)

\* Line 83.
PartnerIdHeader(r) == PyOr(r.partner_id, FINA_PARTNER_ID_DEFAULT)

ApplicationJson ==
    <<"a", "p", "p", "l", "i", "c", "a", "t", "i", "o", "n", "/",
      "j", "s", "o", "n">>

\* Lines 84-90.
Headers(r) ==
    ("Content-Type" :> ApplicationJson)
    @@ ("x-api-key" :> ApiKeyHeader(r))
    @@ ("x-partner-id" :> PartnerIdHeader(r))
    @@ ("x-api-model" :> EffectiveModel(r))
    @@ ("x-api-mapping" :> MappingHeader(r))

\* it.model_dump()
ModelDump(it) == [name |-> it.name, merchant |-> it.merchant, amount |-> it.amount]

\* Mutant: full objects are sent for "v3" only, names for everything else.
PayloadFullForV3Only(r) ==
    IF EffectiveModel(r) = V3
    THEN [i \in 1 .. Len(r.items) |-> ModelDump(r.items[i])]
    ELSE [i \in 1 .. Len(r.items) |-> PyStr(r.items[i].name)]

\* Lines 91-94.
Payload(r) ==
    IF EffectiveModel(r) = V1
    THEN [i \in 1 .. Len(r.items) |-> PyStr(r.items[i].name)]
    ELSE [i \in 1 .. Len(r.items) |-> ModelDump(r.items[i])]

\* Mutant: the assignment rebinds the module-level name.
BindGlobalModel(g, v) == [kind |-> "str", value |-> v]

\* Line 80 binds the name `model` inside fina_categorize, which has no
\* `global model` statement: the module-level model g is left as it is.
BindLocalModel(g, v) == g

(***************************************************************************)
(* fina_categorize: the upstream response (server.py 96-102).              *)
(* r.json() on the JSON documents that occur: null, a string without       *)
(* escapes, or an array of those, written without whitespace.              *)
(***************************************************************************)
Quote == "\""

ParseFail == [ok |-> FALSE]

JsonScalar(s) ==
    IF s = <<"n", "u", "l", "l">> THEN [ok |-> TRUE, value |-> [null |-> TRUE]]
    ELSE IF /\ Len(s) >= 2
            /\ s[1] = Quote
            /\ s[Len(s)] = Quote
            /\ \A k \in 2 .. (Len(s) - 1) : s[k] # Quote
         THEN [ok |-> TRUE, value |-> PyStr(SubSeq(s, 2, Len(s) - 1))]
         ELSE ParseFail

\* The pieces of s between the commas that stand outside quotes.
RECURSIVE SplitTop(_, _, _)
SplitTop(s, cur, inq) ==
    IF s = << >> THEN <<cur>>
    ELSE IF Head(s) = "," /\ ~inq THEN <<cur>> \o SplitTop(Tail(s), << >>, FALSE)
    ELSE SplitTop(Tail(s), Append(cur, Head(s)),
                  IF Head(s) = Quote THEN ~inq ELSE inq)

JsonLoads(s) ==
    IF Len(s) >= 2 /\ s[1] = "[" /\ s[Len(s)] = "]"
    THEN LET inner == SubSeq(s, 2, Len(s) - 1)
             parts == IF inner = << >> THEN << >> ELSE SplitTop(inner, << >>, FALSE)
             elems == [i \in 1 .. Len(parts) |-> JsonScalar(parts[i])]
         IN IF \A i \in 1 .. Len(parts) : elems[i].ok
            THEN [ok |-> TRUE,
                  value |-> [list |-> [i \in 1 .. Len(parts) |-> elems[i].value]]]
            ELSE ParseFail
    ELSE JsonScalar(s)

HTTP_ERROR_MIN == 400
HTTP_OK == 200

\* Mutant: the upstream status is relayed on the success path too.
FinaResponseRelayStatus(r) ==
    IF r.status_code >= HTTP_ERROR_MIN
    THEN [status |-> r.status_code, error |-> r.text]
    ELSE LET parsed == JsonLoads(r.text)
         IN [status |-> r.status_code,
             categories |-> IF parsed.ok THEN parsed.value ELSE PyStr(r.text)]

\* Mutant: 400 itself is not treated as an error.
FinaResponseAbove400(r) ==
    IF r.status_code > HTTP_ERROR_MIN
    THEN [status |-> r.status_code, error |-> r.text]
    ELSE LET parsed == JsonLoads(r.text)
         IN [status |-> HTTP_OK,
             categories |-> IF parsed.ok THEN parsed.value ELSE PyStr(r.text)]

\* The dict returned at line 97 or line 102.
FinaResponse(r) ==
    IF r.status_code >= HTTP_ERROR_MIN
    THEN [status |-> r.status_code, error |-> r.text]
    ELSE LET parsed == JsonLoads(r.text)
         IN [status |-> HTTP_OK,
             categories |-> IF parsed.ok THEN parsed.value ELSE PyStr(r.text)]

(***************************************************************************)
(* fina_categorize (server.py 78-102), in three steps: the request is      *)
(* shaped; requests.post runs; the response is translated.                 *)
(***************************************************************************)
\* Lines 79-94, for a request body drawn from bodies.
FinaStart(p, bodies) ==
    /\ pc[p] = "idle"
    /\ \E body \in bodies :
          LET r == FinaRequest(body)
          IN /\ frame' = [frame EXCEPT ![p] =
                    [model |-> EffectiveModel(r),
                     mapping |-> MappingHeader(r),
                     api_key |-> ApiKeyHeader(r),
                     partner_id |-> PartnerIdHeader(r),
                     headers |-> Headers(r),
                     payload |-> Payload(r)]]
             /\ model' = BindLocalModel(model, EffectiveModel(r))
             /\ req' = [req EXCEPT ![p] = body]
    /\ pc' = [pc EXCEPT ![p] = "fina_post"]
    /\ handler' = [handler EXCEPT ![p] = "fina"]
    /\ UNCHANGED <<tokenizer, result, posts>>

\* Mutant: a timeout or a connection error is retried.
FinaPostRetry(p, outcomes) ==
    /\ pc[p] = "fina_post"
    /\ posts[p] < 3
    /\ posts' = [posts EXCEPT ![p] = @ + 1]
    /\ \E outcome \in outcomes :
          IF outcome.kind = "response"
          THEN /\ frame' = [frame EXCEPT ![p] =
                      [f \in DOMAIN frame[p] \cup {"r"} |->
                          IF f = "r"
                          THEN [status_code |-> outcome.status_code,
                                text |-> outcome.text]
                          ELSE frame[p][f]]]
               /\ pc' = [pc EXCEPT ![p] = "fina_respond"]
          ELSE UNCHANGED <<frame, pc>>
    /\ UNCHANGED <<model, tokenizer, handler, req, result>>

\* Line 95: one call of requests.post, ending as one of outcomes. It returns
\* a response, or raises (Timeout, ConnectionError), which nothing in the
\* handler catches.
FinaPost(p, outcomes) ==
    /\ pc[p] = "fina_post"
    /\ posts' = [posts EXCEPT ![p] = @ + 1]
    /\ \E outcome \in outcomes :
          IF outcome.kind = "response"
          THEN /\ frame' = [frame EXCEPT ![p] =
                      [f \in DOMAIN frame[p] \cup {"r"} |->
                          IF f = "r"
                          THEN [status_code |-> outcome.status_code,
                                text |-> outcome.text]
                          ELSE frame[p][f]]]
               /\ pc' = [pc EXCEPT ![p] = "fina_respond"]
          ELSE /\ pc' = [pc EXCEPT ![p] = "raised"]
               /\ UNCHANGED frame
    /\ UNCHANGED <<model, tokenizer, handler, req, result>>

\* Lines 96-102.
FinaReturn(p) ==
    /\ pc[p] = "fina_respond"
    /\ result' = [result EXCEPT ![p] = FinaResponse(frame[p].r)]
    /\ pc' = [pc EXCEPT ![p] = "done"]
    /\ UNCHANGED <<model, tokenizer, handler, req, frame, posts>>

(***************************************************************************)
(* The inputs of fina_categorize.                                          *)
(***************************************************************************)
Omitted == <<"omitted">>

ItemNames == {<<"a">>, <<"b">>}
ItemMerchants == {<<"m">>}
ItemAmounts == {5}

\* JSON items: merchant and amount are each sent or omitted.
RawItems ==
    [name : ItemNames]
    \cup [name : ItemNames, merchant : ItemMerchants]
    \cup [name : ItemNames, amount : ItemAmounts]
    \cup [name : ItemNames, merchant : ItemMerchants, amount : ItemAmounts]

ItemLists == UNION {[1 .. n -> RawItems] : n \in 0 .. MaxItems}

ModelChoices == {Omitted, None, << >>, V1, <<"v", "2">>}
MappingChoices == {Omitted, None, PyTrue, PyFalse}
ApiKeyChoices == {Omitted, None, << >>, <<"k">>}
PartnerIdChoices == {Omitted, None, << >>, <<"p">>}

\* A JSON body: an optional key chosen as Omitted is left out.
FinaBody(items, m, mp, k, pid) ==
    LET opt == [model |-> m, mapping |-> mp, api_key |-> k, partner_id |-> pid]
        sent == {f \in DOMAIN opt : opt[f] # Omitted}
    IN [f \in sent \cup {"items"} |-> IF f = "items" THEN items ELSE opt[f]]

\* Every item list under every model, the other keys omitted; and every
\* combination of the four optional keys, with one item.
FinaRequests ==
    {FinaBody(items, m, Omitted, Omitted, Omitted) :
        items \in ItemLists, m \in ModelChoices}
    \cup {FinaBody(<<[name |-> <<"a">>]>>, m, mp, k, pid) :
        m \in ModelChoices, mp \in MappingChoices,
        k \in ApiKeyChoices, pid \in PartnerIdChoices}

StatusCodes == {200, 204, 302, 399, 400, 404, 500}

BodyTexts ==
    {<<"[", Quote, "a", Quote, ",", Quote, "b", Quote, "]">>,
     <<"[", "]">>,
     <<Quote, "x", Quote>>,
     <<"n", "u", "l", "l">>,
     <<"[", Quote, "a", Quote>>,
     << >>,
     <<"p", "l", "a", "i", "n", " ", "t", "e", "x", "t">>,
     <<"n", "o", "t", " ", "f", "o", "u", "n", "d">>}

\* What requests.post can do: return a response or raise.
UpstreamOutcomes ==
    [kind : {"response"}, status_code : StatusCodes, text : BodyTexts]
    \cup {[kind |-> "timeout"], [kind |-> "connection_error"]}

\* The proxy alone, one request at a time, over all its inputs.
NextFina ==
    \/ FinaStart(1, FinaRequests)
    \/ FinaPost(1, UpstreamOutcomes)
    \/ FinaReturn(1)
    \/ Finish(1)

\* The proxy never reads the classifier: one loaded model stands for all.
InitFina ==
    /\ Init
    /\ model.config = [is_dict |-> TRUE,
                       id2label |-> [i \in Ids |-> CategoryName(i)]]

SpecFina == InitFina /\ [][NextFina]_vars

\* The classifier alone, one request at a time, over all its inputs.
NextClassify ==
    \/ ClassifyStart(1, ClassifyRequests)
    \/ ClassifyInfer(1, LogitVectors)
    \/ ClassifyReturn(1)
    \/ Finish(1)

SpecClassify == Init /\ [][NextClassify]_vars

(***************************************************************************)
(* The server: every slot runs any handler, the steps of concurrent        *)
(* requests interleave. The requests are a few of each handler's inputs.   *)
(***************************************************************************)
SomeClassifyRequests ==
    {[text |-> <<" ", "a">>, type |-> Income],
     [text |-> <<"a">>, type |-> None]}

\* The forward pass favours the first label or the last.
SomeLogitVectors ==
    {[i \in Ids |-> IF i = k THEN MaxLogit ELSE 0] : k \in {0, NumLabels - 1}}

SomeFinaRequests ==
    {FinaBody(<<[name |-> <<"a">>]>>, V1, Omitted, Omitted, Omitted),
     FinaBody(<<[name |-> <<"b">>, amount |-> 5]>>, Omitted, PyFalse, <<"k">>, Omitted)}

SomeUpstreamOutcomes ==
    {[kind |-> "response", status_code |-> 200, text |-> <<"[", "]">>],
     [kind |-> "response", status_code |-> 404,
      text |-> <<"n", "o", "t", " ", "f", "o", "u", "n", "d">>],
     [kind |-> "timeout"]}

Next ==
    \E p \in Procs :
        \/ Health(p)
        \/ ClassifyStart(p, SomeClassifyRequests)
        \/ ClassifyInfer(p, SomeLogitVectors)
        \/ ClassifyReturn(p)
        \/ FinaStart(p, SomeFinaRequests)
        \/ FinaPost(p, SomeUpstreamOutcomes)
        \/ FinaReturn(p)
        \/ Finish(p)

Spec == Init /\ [][Next]_vars

(***************************************************************************)
(* Properties.                                                             *)
(***************************************************************************)
InFina(p) == handler[p] = "fina"
InClassify(p) == handler[p] = "classify"

TrueText == <<"t", "r", "u", "e">>
FalseText == <<"f", "a", "l", "s", "e">>
PlainText == <<"p", "l", "a", "i", "n", " ", "t", "e", "x", "t">>
NotFound == <<"n", "o", "t", " ", "f", "o", "u", "n", "d">>

\* C1: the payload is the ordered list of the items' names when the caller
\* sent model "v1", and otherwise (model omitted, null, empty or any other
\* string) the ordered list of {name, merchant, amount} objects, an omitted
\* merchant being "" and an omitted amount being 0.
C1_PayloadShape ==
    \A p \in Procs :
        InFina(p) =>
            LET body == req[p]
                items == body.items
                v1 == "model" \in DOMAIN body /\ body.model = V1
                payload == frame[p].payload
            IN /\ DOMAIN payload = 1 .. Len(items)
               /\ \A i \in 1 .. Len(items) :
                     IF v1
                     THEN payload[i] = [str |-> items[i].name]
                     ELSE payload[i] =
                            [name |-> items[i].name,
                             merchant |-> IF "merchant" \in DOMAIN items[i]
                                          THEN items[i].merchant ELSE << >>,
                             amount |-> IF "amount" \in DOMAIN items[i]
                                        THEN items[i].amount ELSE 0]

\* C1 witness: a request with an empty model string and two items, the first
\* omitting merchant and amount, has been posted as full objects.
C1_Witness ==
    /\ InFina(1)
    /\ pc[1] = "fina_respond"
    /\ "model" \in DOMAIN req[1]
    /\ req[1].model = << >>
    /\ Len(req[1].items) = 2
    /\ DOMAIN req[1].items[1] = {"name"}
    /\ DOMAIN req[1].items[2] = {"name", "merchant", "amount"}
    /\ frame[1].payload[1] = [name |-> req[1].items[1].name,
                              merchant |-> << >>, amount |-> 0]

\* C2: when the upstream status is >= 400 the result is exactly
\* {status: that status, error: the raw body text}.
C2_UpstreamError ==
    \A p \in Procs :
        (InFina(p) /\ pc[p] = "done" /\ frame[p].r.status_code >= 400) =>
            /\ DOMAIN result[p] = {"status", "error"}
            /\ result[p].status = frame[p].r.status_code
            /\ result[p].error = frame[p].r.text

\* C2 witness: upstream 404 "not found" came back as {404, "not found"}.
C2_Witness ==
    /\ InFina(1)
    /\ pc[1] = "done"
    /\ frame[1].r = [status_code |-> 404, text |-> NotFound]
    /\ result[1] = [status |-> 404, error |-> NotFound]

\* C3: when the upstream status is < 400 the result is {status: 200,
\* categories: D}, D the parsed body if it is JSON and the raw text
\* otherwise; so the status of any result is 200 or at least 400.
C3_UpstreamSuccess ==
    \A p \in Procs :
        (InFina(p) /\ pc[p] = "done") =>
            /\ result[p].status = 200 \/ result[p].status >= 400
            /\ frame[p].r.status_code < 400 =>
                  LET text == frame[p].r.text
                  IN /\ DOMAIN result[p] = {"status", "categories"}
                     /\ result[p].status = 200
                     /\ result[p].categories =
                           IF JsonLoads(text).ok THEN JsonLoads(text).value
                           ELSE [str |-> text]
                     /\ text = <<"[", Quote, "a", Quote, ",", Quote, "b", Quote, "]">>
                           => result[p].categories =
                                 [list |-> <<[str |-> <<"a">>], [str |-> <<"b">>]>>]
                     /\ text = PlainText
                           => result[p].categories = [str |-> PlainText]

\* C3 witness: upstream 204 with a non-JSON body came back as status 200
\* with the raw text.
C3_Witness ==
    /\ InFina(1)
    /\ pc[1] = "done"
    /\ frame[1].r = [status_code |-> 204, text |-> PlainText]
    /\ result[1] = [status |-> 200, categories |-> [str |-> PlainText]]

\* A string s trimmed: t is s without its leading and trailing whitespace.
IsTrimOf(t, s) ==
    \E i \in 0 .. Len(s) : \E j \in i .. Len(s) :
        /\ t = SubSeq(s, i + 1, j)
        /\ \A k \in 1 .. i : s[k] \in Whitespace
        /\ \A k \in (j + 1) .. Len(s) : s[k] \in Whitespace
        /\ t # << >> => (t[1] \notin Whitespace /\ t[Len(t)] \notin Whitespace)

\* C4: the text handed to the tokenizer is "Transaction: {t} - Type: {type}"
\* for type "income", "expense" or "expenses", t being the trimmed text, and
\* is t itself for every other type, None included.
C4_TokenizerText ==
    \A p \in Procs :
        InClassify(p) =>
            \E t \in ClassifyTexts :
                /\ IsTrimOf(t, req[p].text)
                /\ IF req[p].type \in {Income, Expense, Expenses}
                   THEN frame[p].text =
                          TransactionPrefix \o t \o TypeInfix \o req[p].type
                   ELSE frame[p].text = t

\* C4 witness: " a " of type "expenses" reached the tokenizer templated.
C4_Witness ==
    /\ InClassify(1)
    /\ pc[1] = "classify_infer"
    /\ req[1] = [text |-> <<" ", "a", " ">>, type |-> Expenses]
    /\ frame[1].text = TransactionPrefix \o <<"a">> \o TypeInfix \o Expenses

\* C5 as claimed: label_name is the mapped value whenever the mapping
\* contains label_id, and "LABEL_{label_id}" otherwise.
C5_AsClaimed ==
    \A p \in Procs :
        (InClassify(p) /\ pc[p] = "done") =>
            LET id == result[p].label_id
                c == model.config
            IN IF c.is_dict /\ id \in DOMAIN c.id2label
               THEN result[p].label_name = c.id2label[id]
               ELSE result[p].label_name = LabelPrefix \o IntToStr(id)

\* C5: label_name is the mapped value whenever the mapping contains label_id
\* with a non-empty name, and "LABEL_{label_id}" otherwise (no mapping, id
\* absent, or the mapped name empty).
C5_LabelName ==
    \A p \in Procs :
        (InClassify(p) /\ pc[p] = "done") =>
            LET id == result[p].label_id
                c == model.config
            IN IF c.is_dict /\ id \in DOMAIN c.id2label /\ c.id2label[id] # << >>
               THEN result[p].label_name = c.id2label[id]
               ELSE result[p].label_name = LabelPrefix \o IntToStr(id)

\* C5 witness: the predicted id is mapped to the empty name and the result
\* carries the synthesized one.
C5_Witness ==
    /\ InClassify(1)
    /\ pc[1] = "done"
    /\ model.config.is_dict
    /\ result[1].label_id \in DOMAIN model.config.id2label
    /\ model.config.id2label[result[1].label_id] = << >>
    /\ result[1].label_name = LabelPrefix \o IntToStr(result[1].label_id)

\* C6: label_id is an index at which the probability distribution computed
\* from the logits is largest, score is the probability there, and score
\* lies in [0, 1] (0..1000 thousandths).
C6_ArgmaxScore ==
    \A p \in Procs :
        (InClassify(p) /\ pc[p] = "done") =>
            LET probs == frame[p].probs
                logits == frame[p].logits
                id == result[p].label_id
            IN /\ id \in DOMAIN probs
               /\ \A j \in DOMAIN probs : probs[j] <= probs[id]
               /\ \A j \in DOMAIN logits : logits[j] <= logits[id]
               /\ \A i, j \in DOMAIN logits :
                     logits[i] <= logits[j] => probs[i] <= probs[j]
               /\ result[p].score = probs[id]
               /\ 0 <= result[p].score /\ result[p].score <= 1000

\* C6 witness: the last label alone has the largest logit and is predicted.
C6_Witness ==
    /\ InClassify(1)
    /\ pc[1] = "done"
    /\ \A j \in Ids : j # NumLabels - 1 =>
           frame[1].logits[j] < frame[1].logits[NumLabels - 1]
    /\ result[1].label_id = NumLabels - 1
    /\ result[1].score > 0

\* C7: the x-api-mapping header is "false" exactly when the caller sent
\* mapping false, and "true" otherwise (omitted, null or true).
C7_MappingHeader ==
    \A p \in Procs :
        InFina(p) =>
            /\ frame[p].headers["x-api-mapping"] \in {TrueText, FalseText}
            /\ frame[p].headers["x-api-mapping"] = FalseText
                  <=> ("mapping" \in DOMAIN req[p] /\ req[p].mapping = PyFalse)

\* C7 witness: a null mapping was sent upstream as "true".
C7_Witness ==
    /\ InFina(1)
    /\ pc[1] = "fina_respond"
    /\ "mapping" \in DOMAIN req[1]
    /\ req[1].mapping = None
    /\ frame[1].headers["x-api-mapping"] = TrueText

\* The caller sent key with a value other than null.
Supplied(body, key) == key \in DOMAIN body /\ body[key] # None

\* C8 as claimed: each of x-api-key and x-partner-id carries the caller's
\* value whenever the caller supplied one, and its default only otherwise.
C8_AsClaimed ==
    \A p \in Procs :
        InFina(p) =>
            /\ frame[p].headers["x-api-key"] =
                  IF Supplied(req[p], "api_key") THEN req[p].api_key
                  ELSE FINA_API_KEY_DEFAULT
            /\ frame[p].headers["x-partner-id"] =
                  IF Supplied(req[p], "partner_id") THEN req[p].partner_id
                  ELSE FINA_PARTNER_ID_DEFAULT

\* C8: each of x-api-key and x-partner-id carries the caller's value
\* whenever the caller supplied a non-empty one, and its default otherwise
\* (omitted, null or empty), each independently of the other.
C8_KeyHeaders ==
    \A p \in Procs :
        InFina(p) =>
            /\ frame[p].headers["x-api-key"] =
                  IF Supplied(req[p], "api_key") /\ req[p].api_key # << >>
                  THEN req[p].api_key
                  ELSE FINA_API_KEY_DEFAULT
            /\ frame[p].headers["x-partner-id"] =
                  IF Supplied(req[p], "partner_id") /\ req[p].partner_id # << >>
                  THEN req[p].partner_id
                  ELSE FINA_PARTNER_ID_DEFAULT

\* C8 witness: an empty api_key fell back to the default while the caller's
\* partner_id was carried.
C8_Witness ==
    /\ InFina(1)
    /\ pc[1] = "fina_respond"
    /\ "api_key" \in DOMAIN req[1]
    /\ req[1].api_key = << >>
    /\ "partner_id" \in DOMAIN req[1]
    /\ req[1].partner_id = <<"p">>
    /\ frame[1].headers["x-api-key"] = FINA_API_KEY_DEFAULT
    /\ frame[1].headers["x-partner-id"] = <<"p">>

\* C9: a request sends no POST before line 95 and exactly one from then on,
\* whatever the outcome; after a timeout or a connection error it has
\* raised and returned no result.
C9_SinglePost ==
    \A p \in Procs :
        InFina(p) =>
            /\ posts[p] <= 1
            /\ pc[p] = "fina_post" => posts[p] = 0
            /\ pc[p] \in {"fina_respond", "done", "raised"} => posts[p] = 1
            /\ pc[p] = "raised" => result[p] = NoValue
            /\ pc[p] = "done" => result[p] # NoValue

\* C9 witness: the POST failed and the request raised after its one POST.
C9_Witness ==
    /\ InFina(1)
    /\ pc[1] = "raised"
    /\ posts[1] = 1
    /\ result[1] = NoValue

\* What slot p's request yields when it is handled alone, from its inputs:
\* the request, the forward pass's logits, the upstream response.
HandledAlone(p) ==
    /\ pc[p] = "raised" => (InFina(p) /\ "r" \notin DOMAIN frame[p])
    /\ InFina(p) =>
          /\ frame[p].headers = Headers(FinaRequest(req[p]))
          /\ frame[p].payload = Payload(FinaRequest(req[p]))
    /\ pc[p] = "done" =>
          result[p] =
             CASE handler[p] = "health" -> [status |-> "ok"]
               [] handler[p] = "classify" ->
                    LET probs == Softmax(frame[p].logits)
                        id == Argmax(probs)
                    IN ClassifyResponse(model, id, probs[id])
               [] handler[p] = "fina" -> FinaResponse(frame[p].r)

\* C10: no step of any handler changes the model or tokenizer singletons,
\* and under every interleaving each request ends as it would alone.
C10_Singletons ==
    /\ [](\A p \in Procs : HandledAlone(p))
    /\ [][model' = model /\ tokenizer' = tokenizer]_vars

\* C10 witness: a classify request completed while a fina_categorize
\* request, past its assignment to `model`, was still in flight.
C10_Witness ==
    \E p, q \in Procs :
        /\ InFina(p)
        /\ pc[p] = "fina_post"
        /\ InClassify(q)
        /\ pc[q] = "done"
        /\ result[q].label_name = CategoryName(result[q].label_id)

=============================================================================
